---------------------------- MODULE Spec2Model ----------------------------
(***************************************************************************)
(* A model of chat_agent.py: the ChatAgent session (credential resolution, *)
(* conversation history, request payload) and the command loop of main().  *)
(*                                                                         *)
(* Python strings are modelled as sequences of one-character strings, so   *)
(* that strip(), startswith(), lower(), split() and slicing are computed   *)
(* as Python computes them.  Fixed messages that the program only prints   *)
(* or returns are one-element sequences holding the whole message.         *)
(***************************************************************************)
EXTENDS Integers, Sequences, FiniteSets, TLC

(***************************************************************************)
(* Bounds of the model.                                                    *)
(***************************************************************************)
\* longest credential file, in lines
MaxLines == 2
\* add_message calls in one run of the command loop (Spec)
MaxClock == 3
\* add_message calls in one run of the long-history model (SpecWindow)
MaxClockWindow == 13
\* successful turns in the sequential-turns model (SpecTurns)
MaxTurns == 12

(***************************************************************************)
(* Program constants.                                                      *)
(***************************************************************************)
\* conversation_history[-10:]
ContextWindow == 10
\* len(api_key) < 20
MinKeyLen == 20
\* len(content) > 100, content[:100]
TruncateAt == 100

(***************************************************************************)
(* Python values.                                                          *)
(***************************************************************************)
\* Python's None where a string is expected: no string holds this element.
None == <<"None">>

\* bool(v) of an Optional[str]: None and "" are falsy.
Truthy(v) == v # None /\ v # <<>>

\* The characters str.strip() removes (those that occur in the model).
Whitespace == {" ", "\t", "\n"}

RECURSIVE LStrip(_)
LStrip(s) ==
    IF s # <<>> /\ Head(s) \in Whitespace THEN LStrip(Tail(s)) ELSE s

RECURSIVE RStrip(_)
RStrip(s) ==
    IF s # <<>> /\ s[Len(s)] \in Whitespace
    THEN RStrip(SubSeq(s, 1, Len(s) - 1))
    ELSE s

\* str.strip()
strip(s) == RStrip(LStrip(s))

\* str.startswith(p)
startswith(s, p) == Len(s) >= Len(p) /\ SubSeq(s, 1, Len(p)) = p

\* s.split(c, 1)[1]: what follows the first c (s holds one).
SplitAfter(s, c) ==
    LET i == CHOOSE k \in 1..Len(s) :
                 s[k] = c /\ \A j \in 1..(k - 1) : s[j] # c
    IN  SubSeq(s, i + 1, Len(s))

\* s.split(c, 1)[0]
SplitBefore(s, c) ==
    LET i == CHOOSE k \in 1..Len(s) :
                 s[k] = c /\ \A j \in 1..(k - 1) : s[j] # c
    IN  SubSeq(s, 1, i - 1)

Contains(s, c) == \E k \in 1..Len(s) : s[k] = c

\* str.lower() on the letters that occur in the model's inputs
LowerChar(c) ==
    CASE c = "H" -> "h"
      [] c = "E" -> "e"
      [] c = "L" -> "l"
      [] c = "P" -> "p"
      [] c = "S" -> "s"
      [] c = "A" -> "a"
      [] c = "V" -> "v"
      [] c = "C" -> "c"
      [] OTHER -> c

lower(s) == [i \in 1..Len(s) |-> LowerChar(s[i])]

Max(a, b) == IF a >= b THEN a ELSE b
Min(a, b) == IF a <= b THEN a ELSE b

\* n copies of the character c
Repeat(c, n) == [i \in 1..n |-> c]

(***************************************************************************)
(* Credential sources.                                                     *)
(***************************************************************************)
\* "OPENAI_API_KEY"
KeyName == <<"O", "P", "E", "N", "A", "I", "_", "A", "P", "I", "_", "K", "E", "Y">>
\* "OPENAI_API_KEY="
KeyPrefix == KeyName \o <<"=">>

\* "sk-test123"
SkTest == <<"s", "k", "-", "t", "e", "s", "t", "1", "2", "3">>
\* a key that passes the format check: "sk-" and 17 more characters
SkLong == <<"s", "k", "-">> \o Repeat("a", 17)
\* "k2"
K2 == <<"k", "2">>

\* The lines a credential file is made of, as `for line in f` yields them.
FileLines ==
    { <<"#", " ", "m", "y", " ", "k", "e", "y", "\n">>,
      <<"\n">>,
      KeyPrefix \o SkTest \o <<"\n">>,
      <<" ">> \o KeyPrefix \o <<" ">> \o K2 \o <<" ", "\n">>,
      KeyPrefix \o <<" ", "\n">>,
      <<"O", "T", "H", "E", "R", "=", "x", "\n">> }

\* open(".env") raises FileNotFoundError / another exception
NoFile == << <<"FileNotFoundError">> >>
Unreadable == << <<"PermissionError">> >>

\* The states of the .env file: absent, unreadable, or up to MaxLines lines.
Files ==
    {NoFile, Unreadable}
        \cup UNION { [1..n -> FileLines] : n \in 0..MaxLines }

\* The values of the OPENAI_API_KEY environment variable; None is unset.
EnvValues ==
    { None, <<>>, <<" ", " ">>, <<" ">> \o SkLong \o <<"\n">>, <<"e", "n", "v">> }

\* The api_key arguments of ChatAgent(api_key=...).
ExplicitValues ==
    { None, <<>>, <<" ">>, <<" ", "s", "k", "-", "x", " ">>, SkLong, <<"a", "r", "g">> }

IsFile(f) == f # NoFile /\ f # Unreadable

(***************************************************************************)
(* load_dotenv(), of the python-dotenv package, as called with no          *)
(* arguments: it parses the .env file and sets each variable that the      *)
(* process environment does not hold yet; of several bindings of one name  *)
(* the last one stands.  Values are unquoted here, so the parser strips    *)
(* the whitespace around them.                                             *)
(***************************************************************************)
\* the value a line binds OPENAI_API_KEY to, None when it binds nothing
DotenvLineValue(line) ==
    LET l == strip(line)
    IN  IF l = <<>> \/ Head(l) = "#" \/ ~Contains(l, "=") THEN None
        ELSE IF strip(SplitBefore(l, "=")) = KeyName
             THEN strip(SplitAfter(l, "="))
             ELSE None

RECURSIVE DotenvValue(_)
DotenvValue(f) ==
    IF f = <<>> THEN None
    ELSE LET v == DotenvLineValue(f[Len(f)])
         IN  IF v # None THEN v ELSE DotenvValue(SubSeq(f, 1, Len(f) - 1))

\* os.environ["OPENAI_API_KEY"] after load_dotenv()
load_dotenv(env, f) ==
    IF ~IsFile(f) \/ env # None THEN env
    ELSE DotenvValue(f)

(***************************************************************************)
(* ChatAgent._get_api_key                                                  *)
(***************************************************************************)
\* Method 3: the manual read of .env; None when no line yields a key.
RECURSIVE ManualRead(_)
ManualRead(f) ==
    IF ~IsFile(f) \/ f = <<>> THEN None
    ELSE LET line == strip(Head(f))
             found == /\ line # <<>>
                      /\ ~startswith(line, <<"#">>)
                      /\ startswith(line, KeyPrefix)
                      /\ strip(SplitAfter(line, "=")) # <<>>
         IN  IF found THEN strip(SplitAfter(line, "="))
             ELSE ManualRead(Tail(f))

\* The key _get_api_key returns, the environment it leaves, and the source.
get_api_key(env, dotenv, f) ==
    IF Truthy(env) /\ Truthy(strip(env))
    THEN [api_key |-> strip(env), environ |-> env, source |-> "environment"]
    ELSE LET env2 == IF dotenv THEN load_dotenv(env, f) ELSE env
         IN  IF dotenv /\ Truthy(env2) /\ Truthy(strip(env2))
             THEN [api_key |-> strip(env2), environ |-> env2, source |-> "dotenv"]
             ELSE [api_key |-> ManualRead(f), environ |-> env2,
                   source |-> IF ManualRead(f) # None THEN "manual" ELSE "none"]

\* a resolver that asks the environment and the file before the argument
resolve_api_key_env_first(explicit, env, dotenv, f) ==
    LET r == get_api_key(env, dotenv, f)
    IN  IF r.api_key # None THEN r
        ELSE [api_key |-> explicit, environ |-> r.environ, source |-> "argument"]

\* self.api_key = api_key or self._get_api_key()
resolve_api_key(explicit, env, dotenv, f) ==
    IF Truthy(explicit)
    THEN [api_key |-> explicit, environ |-> env, source |-> "argument"]
    ELSE get_api_key(env, dotenv, f)

\* ChatAgent._validate_api_key
validate_api_key(k) ==
    /\ Truthy(k)
    /\ startswith(k, <<"s", "k", "-">>)
    /\ ~(Len(k) < MinKeyLen)


(***************************************************************************)
(* Messages and the request payload.                                       *)
(***************************************************************************)
\* self.system_message
SystemMessage ==
    [ role |-> "system",
      content |-> <<"You are a helpful AI assistant. Be friendly, informative, and concise in your responses.">> ]

\* the `model` default of __init__
DefaultModel == "gpt-3.5-turbo"

\* a history that takes the new message at its front
add_message_front(history, role, content, now) ==
    <<[role |-> role, content |-> content, timestamp |-> now]>> \o history

\* ChatAgent.add_message: the history with the new message at its end;
\* `now` is the reading of datetime.now().
add_message(history, role, content, now) ==
    Append(history, [role |-> role, content |-> content, timestamp |-> now])

\* a window one message short: conversation_history[-9:]
recent_messages_nine(history) ==
    SubSeq(history, Max(1, Len(history) - ContextWindow + 2), Len(history))

\* self.conversation_history[-10:]
recent_messages(history) ==
    SubSeq(history, Max(1, Len(history) - ContextWindow + 1), Len(history))

\* {"role": msg["role"], "content": msg["content"]}
StripTimestamp(msg) == [role |-> msg.role, content |-> msg.content]

\* a payload that holds the whole history
build_messages_all(system, history) ==
    <<system>> \o [i \in 1..Len(history) |-> StripTimestamp(history[i])]

\* the `messages` list get_response passes to the collaborator
build_messages(system, history) ==
    LET recent == recent_messages(history)
    IN  <<system>> \o [i \in 1..Len(recent) |-> StripTimestamp(recent[i])]

\* The ways client.chat.completions.create ends: a reply, or one of the
\* exceptions get_response tells apart.
Errors == {"AuthenticationError", "RateLimitError", "APIError", "Exception"}
Outcomes == {"ok"} \cup Errors

\* the string get_response returns from an except clause
ErrorString(outcome) ==
    CASE outcome = "AuthenticationError" ->
             <<"Error: Invalid API key. Please check your OpenAI API key.">>
      [] outcome = "RateLimitError" ->
             <<"Error: Rate limit exceeded. Please wait a moment and try again.">>
      [] outcome = "APIError" ->
             <<"Error: OpenAI API error: ", "str(e)">>
      [] OTHER ->
             <<"Error: Unexpected error: ", "str(e)">>

ErrorStrings == { ErrorString(e) : e \in Errors }

\* a get_response that records the error string as the assistant's reply
get_response_reply_on_error(history, system, user_message, result, reply, now) ==
    LET h1 == add_message(history, "user", user_message, now + 1)
        answer == IF result = "ok" THEN reply ELSE ErrorString(result)
    IN  [ history |-> add_message(h1, "assistant", answer, now + 2),
          sent |-> build_messages(system, h1),
          returned |-> answer ]

\* a get_response that takes the user's message back when the call fails
get_response_rollback(history, system, user_message, result, reply, now) ==
    LET h1 == add_message(history, "user", user_message, now + 1)
    IN  IF result = "ok"
        THEN [ history |-> add_message(h1, "assistant", reply, now + 2),
               sent |-> build_messages(system, h1),
               returned |-> reply ]
        ELSE [ history |-> history,
               sent |-> build_messages(system, h1),
               returned |-> ErrorString(result) ]

\* a get_response that does not store the user's message
get_response_reply_only(history, system, user_message, result, reply, now) ==
    LET h1 == add_message(history, "user", user_message, now + 1)
    IN  IF result = "ok"
        THEN [ history |-> add_message(history, "assistant", reply, now + 2),
               sent |-> build_messages(system, h1),
               returned |-> reply ]
        ELSE [ history |-> history,
               sent |-> build_messages(system, h1),
               returned |-> ErrorString(result) ]

\* ChatAgent.get_response: the history it leaves, the payload it sends and
\* the string it returns; `now` is the clock before the call.
get_response(history, system, user_message, result, reply, now) ==
    LET h1 == add_message(history, "user", user_message, now + 1)
    IN  IF result = "ok"
        THEN [ history |-> add_message(h1, "assistant", reply, now + 2),
               sent |-> build_messages(system, h1),
               returned |-> reply ]
        ELSE [ history |-> h1,
               sent |-> build_messages(system, h1),
               returned |-> ErrorString(result) ]

\* a clear that drops only the newest message
clear_history_pop(history) ==
    IF history = <<>> THEN <<>> ELSE SubSeq(history, 1, Len(history) - 1)

\* a clear that keeps the newest message
clear_history_keep_last(history) ==
    IF history = <<>> THEN <<>> ELSE <<history[Len(history)]>>

\* ChatAgent.clear_history: self.conversation_history.clear()
clear_history(history) == <<>>

(***************************************************************************)
(* ChatAgent.show_history                                                  *)
(***************************************************************************)
DigitChar(d) ==
    CASE d = 0 -> "0" [] d = 1 -> "1" [] d = 2 -> "2" [] d = 3 -> "3"
      [] d = 4 -> "4" [] d = 5 -> "5" [] d = 6 -> "6" [] d = 7 -> "7"
      [] d = 8 -> "8" [] OTHER -> "9"

\* str(n) of a natural number
RECURSIVE str(_)
str(n) == IF n < 10 THEN <<DigitChar(n)>> ELSE str(n \div 10) \o <<DigitChar(n % 10)>>

\* msg["role"].title()
title(role) ==
    CASE role = "user" -> <<"U", "s", "e", "r">>
      [] role = "assistant" -> <<"A", "s", "s", "i", "s", "t", "a", "n", "t">>
      [] OTHER -> <<"S", "y", "s", "t", "e", "m">>

\* content[:100] + "..." when len(content) > 100
truncate(content) ==
    IF Len(content) > TruncateAt
    THEN SubSeq(content, 1, TruncateAt) \o <<".", ".", ".">>
    ELSE content

\* the lines show_history prints
show_history(history) ==
    IF history = <<>> THEN << <<"No conversation history yet.">> >>
    ELSE << <<"Conversation History:">>, <<"-" , "*50">> >>
         \o [ i \in 1..Len(history) |->
                str(i) \o <<".", " ">> \o title(history[i].role)
                       \o <<":", " ">> \o truncate(history[i].content) ]
         \o << <<"-", "*50">> >>


(***************************************************************************)
(* State.                                                                  *)
(***************************************************************************)
VARIABLES
    \* the ChatAgent object
    model, conversation_history, api_key, system_message,
    \* the process environment: the OPENAI_API_KEY variable, whether
    \* python-dotenv is installed, the .env file, the conversation file
    \* that the last /save wrote
    environ, dotenv_available, env_file, saved,
    \* the process: "start", "ready" (an agent exists; main() waits at
    \* input()), "raised" (__init__ raised to its caller), "exited"
    pc, exit_status,
    \* datetime.now(), as the number of messages stamped so far
    clock,
    \* the last operation: its name, its argument, the collaborator's
    \* outcome, the payload sent, the value returned, the lines printed
    op, arg, outcome, sent, returned, output,
    \* the get_response calls since the history was last empty by
    \* construction or by clear_history (the text of each, whether it
    \* succeeded, and the reply it then returned), and the length of the
    \* history before the last operation
    calls, prev_len

vars ==
    << model, conversation_history, api_key, system_message,
       environ, dotenv_available, env_file, saved,
       pc, exit_status, clock,
       op, arg, outcome, sent, returned, output, calls, prev_len >>

agent_vars == << model, conversation_history, api_key, system_message >>
env_vars == << environ, dotenv_available, env_file >>

\* no conversation file written
NotSaved == << [role |-> "none", content |-> <<>>, timestamp |-> 0] >>

\* what an operation that calls no collaborator leaves in the observations
NoCall ==
    /\ outcome' = "none"
    /\ sent' = <<>>
    /\ returned' = None

(***************************************************************************)
(* ChatAgent.__init__ and the start of main().                             *)
(***************************************************************************)
\* The attributes __init__ sets and what it prints; client_ok is whether
\* openai.OpenAI(api_key=...) returns.
Init__(explicit, client_ok) ==
    LET r == resolve_api_key(explicit, environ, dotenv_available, env_file)
    IN  /\ model' = DefaultModel
        /\ conversation_history' = <<>>
        /\ api_key' = r.api_key
        /\ environ' = r.environ
        /\ system_message' =
               IF Truthy(r.api_key) /\ client_ok THEN SystemMessage
               ELSE system_message
        /\ output' =
               IF ~Truthy(r.api_key)
               THEN << <<"Error: OpenAI API key not found!">> >>
               ELSE (IF r.source = "argument" THEN <<>> ELSE << <<r.source>> >>)
                    \o (IF validate_api_key(r.api_key) THEN <<>>
                        ELSE << <<"Warning: API key format looks unusual">> >>)
        /\ op' = "init"
        /\ arg' = explicit
        /\ NoCall
        /\ UNCHANGED << dotenv_available, env_file, saved, clock, calls, prev_len >>

\* agent = ChatAgent(api_key=explicit), called by a program other than main()
Construct(explicit, client_ok) ==
    /\ pc = "start"
    /\ Init__(explicit, client_ok)
    /\ pc' = IF ~Truthy(api_key') THEN "exited"
             ELSE IF client_ok THEN "ready" ELSE "raised"
    /\ exit_status' = IF ~Truthy(api_key') THEN 1 ELSE exit_status

\* a main() whose except clause also catches the SystemExit of __init__
MainStartupCatchesExit(client_ok) ==
    /\ pc = "start"
    /\ Init__(None, client_ok)
    /\ pc' = IF Truthy(api_key') /\ client_ok THEN "ready" ELSE "exited"
    /\ exit_status' = IF Truthy(api_key') /\ client_ok THEN exit_status ELSE 0

\* main(): agent = ChatAgent() inside try ... except Exception: return
MainStartup(client_ok) ==
    /\ pc = "start"
    /\ Init__(None, client_ok)
    /\ pc' = IF Truthy(api_key') /\ client_ok THEN "ready" ELSE "exited"
    /\ exit_status' = IF ~Truthy(api_key') THEN 1
                      ELSE IF client_ok THEN exit_status ELSE 0

(***************************************************************************)
(* The operations of a constructed agent.                                  *)
(***************************************************************************)
\* agent.get_response(user_message)
GetResponse(user_message, result, reply) ==
    LET r == get_response(conversation_history, system_message,
                          user_message, result, reply, clock)
    IN  /\ pc = "ready"
        /\ conversation_history' = r.history
        /\ clock' = clock + (IF result = "ok" THEN 2 ELSE 1)
        /\ op' = "get_response"
        /\ arg' = user_message
        /\ outcome' = result
        /\ sent' = r.sent
        /\ returned' = r.returned
        /\ calls' = Append(calls, [ text |-> user_message,
                                    ok |-> (result = "ok"),
                                    returned |-> IF result = "ok" THEN r.returned
                                                 ELSE None ])
        /\ prev_len' = Len(conversation_history)
        /\ UNCHANGED << model, api_key, system_message, env_vars, saved,
                        pc, exit_status >>

\* a call of get_response from outside main(); nothing is printed
DirectGetResponse(user_message, result, reply) ==
    /\ GetResponse(user_message, result, reply)
    /\ output' = <<>>

\* What an operation that leaves the agent alone does to the rest.
Quiet(name, line, printed) ==
    /\ op' = name
    /\ arg' = line
    /\ output' = printed
    /\ NoCall
    /\ prev_len' = Len(conversation_history)
    /\ UNCHANGED << env_vars, clock >>

(***************************************************************************)
(* The loop of main(): one action per branch of one iteration.             *)
(***************************************************************************)
\* a dispatcher that sends what it does not recognise to the collaborator
DispatchUnknownAsMessage(line) ==
    LET user_input == strip(line)
        command == lower(user_input)
    IN  IF user_input = <<>> THEN "empty"
        ELSE IF ~startswith(user_input, <<"/">>) THEN "message"
        ELSE IF command = <<"/", "q", "u", "i", "t">>
                  \/ command = <<"/", "e", "x", "i", "t">> THEN "quit"
        ELSE IF command = <<"/", "h", "e", "l", "p">> THEN "help"
        ELSE IF command = <<"/", "s", "a", "v", "e">> THEN "save"
        ELSE IF command = <<"/", "c", "l", "e", "a", "r">> THEN "clear"
        ELSE IF command = <<"/", "h", "i", "s", "t", "o", "r", "y">> THEN "history"
        ELSE IF command = <<"/", "s", "e", "c", "u", "r", "i", "t", "y">> THEN "security"
        ELSE "message"

\* the branch an input line takes
Dispatch(line) ==
    LET user_input == strip(line)
        command == lower(user_input)
    IN  IF user_input = <<>> THEN "empty"
        ELSE IF ~startswith(user_input, <<"/">>) THEN "message"
        ELSE IF command = <<"/", "q", "u", "i", "t">>
                  \/ command = <<"/", "e", "x", "i", "t">> THEN "quit"
        ELSE IF command = <<"/", "h", "e", "l", "p">> THEN "help"
        ELSE IF command = <<"/", "s", "a", "v", "e">> THEN "save"
        ELSE IF command = <<"/", "c", "l", "e", "a", "r">> THEN "clear"
        ELSE IF command = <<"/", "h", "i", "s", "t", "o", "r", "y">> THEN "history"
        ELSE IF command = <<"/", "s", "e", "c", "u", "r", "i", "t", "y">> THEN "security"
        ELSE "unknown"

\* if not user_input: continue
MainEmpty(line) ==
    /\ pc = "ready"
    /\ Dispatch(line) = "empty"
    /\ Quiet("empty", line, <<>>)
    /\ UNCHANGED << agent_vars, saved, pc, exit_status, calls >>

\* /quit, /exit: break
MainQuit(line) ==
    /\ pc = "ready"
    /\ Dispatch(line) = "quit"
    /\ Quiet("quit", line, << <<"Goodbye! Thanks for chatting!">> >>)
    /\ pc' = "exited"
    /\ exit_status' = 0
    /\ UNCHANGED << agent_vars, saved, calls >>

\* input() raises KeyboardInterrupt or EOFError: break
MainInterrupt ==
    /\ pc = "ready"
    /\ Quiet("interrupt", None, << <<"Goodbye! Thanks for chatting!">> >>)
    /\ pc' = "exited"
    /\ exit_status' = 0
    /\ UNCHANGED << agent_vars, saved, calls >>

\* /help: agent.show_help()
MainHelp(line) ==
    /\ pc = "ready"
    /\ Dispatch(line) = "help"
    /\ Quiet("show_help", line, << <<"Chat Agent Help">> >>)
    /\ UNCHANGED << agent_vars, saved, pc, exit_status, calls >>

\* /security: agent._show_security_tips()
MainSecurity(line) ==
    /\ pc = "ready"
    /\ Dispatch(line) = "security"
    /\ Quiet("show_security_tips", line,
             << <<"Security Best Practices for API Keys:">> >>)
    /\ UNCHANGED << agent_vars, saved, pc, exit_status, calls >>

\* any other line that starts with "/"
MainUnknown(line) ==
    /\ pc = "ready"
    /\ Dispatch(line) = "unknown"
    /\ Quiet("unknown", line,
             << <<"Unknown command: ">> \o strip(line),
                <<"Type /help for available commands">> >>)
    /\ UNCHANGED << agent_vars, saved, pc, exit_status, calls >>

\* /save: agent.save_conversation(); write_ok is whether open() and
\* json.dump() succeed
MainSave(line, write_ok) ==
    /\ pc = "ready"
    /\ Dispatch(line) = "save"
    /\ Quiet("save_conversation", line,
             IF write_ok THEN << <<"Conversation saved to ", "filename">> >>
             ELSE << <<"Error saving conversation: ", "str(e)">> >>)
    /\ saved' = IF write_ok THEN conversation_history ELSE saved
    /\ UNCHANGED << agent_vars, pc, exit_status, calls >>

\* /clear: agent.clear_history()
MainClear(line) ==
    /\ pc = "ready"
    /\ Dispatch(line) = "clear"
    /\ Quiet("clear_history", line, << <<"Conversation history cleared!">> >>)
    /\ conversation_history' = clear_history(conversation_history)
    /\ calls' = <<>>
    /\ UNCHANGED << model, api_key, system_message, saved, pc, exit_status >>

\* a show_history that stores the text it cut for display
MainHistoryTruncatesStored(line) ==
    /\ pc = "ready"
    /\ Dispatch(line) = "history"
    /\ Quiet("show_history", line, show_history(conversation_history))
    /\ conversation_history' =
           [ i \in 1..Len(conversation_history) |->
               [ conversation_history[i] EXCEPT
                   !.content = truncate(conversation_history[i].content) ] ]
    /\ UNCHANGED << model, api_key, system_message, saved, pc, exit_status, calls >>

\* /history: agent.show_history()
MainHistory(line) ==
    /\ pc = "ready"
    /\ Dispatch(line) = "history"
    /\ Quiet("show_history", line, show_history(conversation_history))
    /\ UNCHANGED << agent_vars, saved, pc, exit_status, calls >>

\* a loop in which a failed collaborator call is not caught by get_response
\* and ends the process
MainMessageFatal(line, result, reply) ==
    IF result = "ok"
    THEN /\ Dispatch(line) = "message"
         /\ GetResponse(strip(line), result, reply)
         /\ output' = << <<"AI: ">> \o returned' >>
    ELSE /\ Dispatch(line) = "message"
         /\ pc = "ready"
         /\ conversation_history' =
                add_message(conversation_history, "user", strip(line), clock + 1)
         /\ clock' = clock + 1
         /\ op' = "get_response"
         /\ arg' = strip(line)
         /\ outcome' = result
         /\ sent' = build_messages(system_message, conversation_history')
         /\ returned' = None
         /\ output' = << <<"Traceback">> >>
         /\ calls' = Append(calls, [text |-> strip(line), ok |-> FALSE,
                                    returned |-> None])
         /\ prev_len' = Len(conversation_history)
         /\ pc' = "exited"
         /\ exit_status' = 1
         /\ UNCHANGED << model, api_key, system_message, env_vars, saved >>

\* any other line: response = agent.get_response(user_input); print(response)
MainMessage(line, result, reply) ==
    /\ Dispatch(line) = "message"
    /\ GetResponse(strip(line), result, reply)
    /\ output' = << <<"AI: ">> \o returned' >>


(***************************************************************************)
(* Inputs.                                                                 *)
(***************************************************************************)
Hi == <<"h", "i">>
Yo == <<"y", "o">>
Hello == <<"h", "e", "l", "l", "o">>
\* a reply longer than show_history displays in full
LongReply == Repeat("x", TruncateAt + 1)

\* the user_message arguments of direct get_response calls
Texts == { Hi, <<>>, <<" ">> }

\* the replies of the collaborator
Replies == { Hello, LongReply }

\* the lines input() returns
Lines ==
    { <<>>, <<" ", " ">>, <<" ", "h", "i", " ">>,
      <<"/", "h", "e", "l", "p">>, <<"/", "H", "E", "L", "P">>,
      <<"/", "s", "a", "v", "e">>, <<"/", "s", "a", "v", "e", " ", "x">>,
      <<"/", "c", "l", "e", "a", "r">>, <<" ", "/", "c", "l", "e", "a", "r">>,
      <<"/", "C", "l", "e", "a", "r">>,
      <<"/", "h", "i", "s", "t", "o", "r", "y">>,
      <<"/", "s", "e", "c", "u", "r", "i", "t", "y">>,
      <<"/", "q", "u", "i", "t">>, <<"/", "e", "x", "i", "t">>,
      <<"/", "f", "o", "o">>, <<"/">> }

\* the messages one get_response call stamps
Stamps(result) == IF result = "ok" THEN 2 ELSE 1

(***************************************************************************)
(* Specifications.                                                         *)
(***************************************************************************)
\* No agent yet: the state before ChatAgent.__init__ runs.
NoAgent ==
    /\ model = "none"
    /\ conversation_history = <<>>
    /\ api_key = None
    /\ system_message = [role |-> "none", content |-> <<>>]

Idle ==
    /\ saved = NotSaved
    /\ exit_status = -1
    /\ clock = 0
    /\ arg = None
    /\ outcome = "none"
    /\ sent = <<>>
    /\ returned = None
    /\ calls = <<>>
    /\ prev_len = 0

\* The process before main() or a caller constructs the agent, in every
\* state of the credential sources.
InitCred ==
    /\ NoAgent
    /\ Idle
    /\ environ \in EnvValues
    /\ dotenv_available \in BOOLEAN
    /\ env_file \in Files
    /\ pc = "start"
    /\ op = "none"
    /\ output = <<>>

\* main() at its first input(): ChatAgent() found the key in the environment.
Init ==
    /\ model = DefaultModel
    /\ conversation_history = <<>>
    /\ api_key = SkLong
    /\ system_message = SystemMessage
    /\ Idle
    /\ environ = SkLong
    /\ dotenv_available = TRUE
    /\ env_file = NoFile
    /\ pc = "ready"
    /\ op = "init"
    /\ output = << <<"environment">> >>

\* construction, and the ways the process ends
NextCred ==
    \/ \E explicit \in ExplicitValues, client_ok \in BOOLEAN :
           Construct(explicit, client_ok)
    \/ \E client_ok \in BOOLEAN : MainStartup(client_ok)
    \/ \E line \in Lines : MainQuit(line)
    \/ MainInterrupt

SpecCred == InitCred /\ [][NextCred]_vars

\* the command loop and direct calls, on short histories
Next ==
    \/ \E t \in Texts, r \in Outcomes, reply \in Replies :
           clock + Stamps(r) <= MaxClock /\ DirectGetResponse(t, r, reply)
    \/ \E line \in Lines, r \in Outcomes, reply \in Replies :
           clock + Stamps(r) <= MaxClock /\ MainMessage(line, r, reply)
    \/ \E line \in Lines : MainEmpty(line)
    \/ \E line \in Lines : MainHelp(line)
    \/ \E line \in Lines : MainSecurity(line)
    \/ \E line \in Lines : MainUnknown(line)
    \/ \E line \in Lines, write_ok \in BOOLEAN : MainSave(line, write_ok)
    \/ \E line \in Lines : MainClear(line)
    \/ \E line \in Lines : MainHistory(line)
    \/ \E line \in Lines : MainQuit(line)
    \/ MainInterrupt

Spec == Init /\ [][Next]_vars

\* turns and clears on histories longer than the context window
NextWindow ==
    \/ \E r \in Outcomes :
           clock + Stamps(r) <= MaxClockWindow /\ MainMessage(Hi, r, Hello)
    \/ MainClear(<<"/", "c", "l", "e", "a", "r">>)

SpecWindow == Init /\ [][NextWindow]_vars

\* successful turns only, one after the other
NextTurns ==
    \E line \in {Hi, Yo} :
        Len(calls) < MaxTurns /\ MainMessage(line, "ok", Hello)

SpecTurns == Init /\ [][NextTurns]_vars


(***************************************************************************)
(* Properties.                                                             *)
(***************************************************************************)
\* every call in the log succeeded
AllOk == \A i \in 1..Len(calls) : calls[i].ok

\* C1: after n successful get_response calls on an empty history, with no
\* clear in between, the history holds exactly 2n messages: for each call,
\* in call order, its user message and then the reply it returned.
C1_SuccessfulTurnsFillHistory ==
    AllOk =>
        /\ Len(conversation_history) = 2 * Len(calls)
        /\ \A i \in 1..Len(calls) :
               /\ conversation_history[2 * i - 1].role = "user"
               /\ conversation_history[2 * i - 1].content = calls[i].text
               /\ conversation_history[2 * i].role = "assistant"
               /\ conversation_history[2 * i].content = calls[i].returned

\* three successful calls and nothing else since the history was empty
C1_Witness ==
    /\ AllOk
    /\ Len(calls) = 3
    /\ Len(conversation_history) = 6

\* C2: a get_response call whose collaborator call fails, with any of the
\* four error kinds, appends the user's message and nothing else, and
\* leaves the messages already in the history as they were.
C2_FailedTurnAppendsUserOnly ==
    [][ (op' = "get_response" /\ outcome' \in Errors) =>
            /\ Len(conversation_history') = Len(conversation_history) + 1
            /\ SubSeq(conversation_history', 1, Len(conversation_history))
                   = conversation_history
            /\ conversation_history'[Len(conversation_history')].role = "user"
            /\ conversation_history'[Len(conversation_history')].content = arg'
            /\ returned' \in ErrorStrings ]_vars

\* a failed call on a history that held an answered turn
C2_Witness ==
    /\ op = "get_response"
    /\ outcome = "RateLimitError"
    /\ prev_len = 2
    /\ Len(conversation_history) = 3
    /\ conversation_history[2].role = "assistant"

\* the history as it was when the last get_response built its payload
RequestHistory ==
    IF outcome = "ok"
    THEN SubSeq(conversation_history, 1, Len(conversation_history) - 1)
    ELSE conversation_history

\* C3: whatever the length of the history, the payload get_response sends
\* is the system message followed by the last min(10, length) messages of
\* the history, in insertion order, each as its role and content, and
\* nothing else.
C3_PayloadIsSystemThenWindow ==
    op = "get_response" =>
        LET h == RequestHistory
            k == Min(ContextWindow, Len(h))
        IN  /\ Len(sent) = k + 1
            /\ sent[1] = system_message
            /\ \A i \in 1..k :
                   sent[1 + i] = [ role |-> h[Len(h) - k + i].role,
                                   content |-> h[Len(h) - k + i].content ]

\* a request built on a history longer than the window
C3_Witness ==
    /\ op = "get_response"
    /\ Len(RequestHistory) > ContextWindow + 1
    /\ Len(sent) = ContextWindow + 1

\* the messages of the history at insertion indices from..to, as sent
Sent(from, to) ==
    [ i \in 1..(to - from + 1) |->
        [ role |-> conversation_history[from + i - 1].role,
          content |-> conversation_history[from + i - 1].content ] ]

\* C4, as stated: the payload of the 12th of 12 successful turns is the
\* system message and the history messages at insertion indices 13 to 22.
C4_Original ==
    (Len(calls) = 12 /\ AllOk /\ op = "get_response") =>
        sent = <<system_message>> \o Sent(13, 22)

\* C4, amended: the 12th request is built when the history holds 23
\* messages, the 22 of the eleven turns before it and the 12th user
\* message; its payload is the system message and the messages at
\* insertion indices 14 to 23, not all 23.
C4_TwelfthPayload ==
    (Len(calls) = 12 /\ AllOk /\ op = "get_response") =>
        /\ Len(RequestHistory) = 23
        /\ sent = <<system_message>> \o Sent(14, 23)
        /\ Len(sent) = 11

\* the state after the 12th successful turn
C4_Witness ==
    /\ Len(calls) = 12
    /\ AllOk
    /\ op = "get_response"
    /\ Len(conversation_history) = 24

\* C5: get_response called with a text that is empty after trimming
\* changes no state: the history keeps its length and the collaborator is
\* not called.
C5_EmptyTurnRejected ==
    (op = "get_response" /\ strip(arg) = <<>>) =>
        /\ Len(conversation_history) = prev_len
        /\ sent = <<>>

\* C6: clear leaves the history empty whatever its length was, leaves
\* system_message and model as they were, and a second clear changes
\* nothing that the first one left.
C6_ClearEmptiesHistory ==
    [][ op' = "clear_history" =>
            /\ conversation_history' = <<>>
            /\ system_message' = system_message
            /\ model' = model
            /\ api_key' = api_key
            /\ op = "clear_history" =>
                   UNCHANGED << agent_vars, env_vars, saved, clock, calls,
                                pc, exit_status, output >> ]_vars

\* a clear of a history that held messages
C6_Witness ==
    /\ op = "clear_history"
    /\ prev_len >= 2
    /\ conversation_history = <<>>
    /\ system_message = SystemMessage
    /\ model = DefaultModel

\* C7: every step leaves the history as it was, or appends messages at its
\* end, or is a clear that leaves it empty; no message already in it is
\* edited, moved or deleted on its own.
C7_AppendOnly ==
    [][ \/ conversation_history' = conversation_history
        \/ /\ Len(conversation_history') > Len(conversation_history)
           /\ SubSeq(conversation_history', 1, Len(conversation_history))
                  = conversation_history
        \/ /\ op' = "clear_history"
           /\ conversation_history' = <<>> ]_vars

\* a history of a failed and an answered turn, after a command that only
\* reads it
C7_Witness ==
    /\ Len(conversation_history) = 3
    /\ op \in {"save_conversation", "show_history"}
    /\ clock = 3

\* the environment variable holds a key
EnvYields(env) == env # None /\ strip(env) # <<>>

\* the value of a KEY=VALUE line for OPENAI_API_KEY, <<>> when it has none
LineValue(line) ==
    LET l == strip(line)
    IN  IF startswith(l, KeyPrefix)
        THEN strip(SubSeq(l, Len(KeyPrefix) + 1, Len(l)))
        ELSE <<>>

\* the non-empty values the credential file holds for OPENAI_API_KEY
FileValues(f) ==
    IF ~IsFile(f) THEN {}
    ELSE { LineValue(f[i]) : i \in 1..Len(f) } \ { <<>> }

\* C8: the credential comes from the first of argument, environment
\* variable and credential file that yields a non-empty value; with an
\* argument, the environment and the file are neither used nor touched.
C8_SourcePriority ==
    [][ op' = "init" =>
            /\ Truthy(arg') => (api_key' = arg' /\ environ' = environ)
            /\ (~Truthy(arg') /\ EnvYields(environ)) =>
                   api_key' = strip(environ)
            /\ (~Truthy(arg') /\ ~EnvYields(environ)) =>
                   IF FileValues(env_file) = {}
                   THEN api_key' = None
                   ELSE api_key' \in FileValues(env_file) ]_vars

\* an argument given while the environment and the file hold other keys
C8_Witness ==
    /\ op = "init"
    /\ Truthy(arg)
    /\ api_key = arg
    /\ EnvYields(environ)
    /\ FileValues(env_file) # {}
    /\ strip(environ) # arg
    /\ arg \notin FileValues(env_file)

\* C9: the credential an agent holds has no whitespace around it and is
\* not empty, whichever source it came from.
C9_CredentialTrimmed ==
    pc = "ready" => (api_key = strip(api_key) /\ api_key # <<>>)

\* no source holds a key for this construction
Missing(explicit, env, f) ==
    ~Truthy(explicit) /\ ~EnvYields(env) /\ FileValues(f) = {}

C11_FailedTurnKeepsLoopRunning ==
    /\ (op = "get_response" /\ outcome \in Errors) =>
           /\ pc = "ready"
           /\ returned = ErrorString(outcome)
           /\ exit_status = -1
           /\ ENABLED (\E r \in Outcomes : MainMessage(Hi, r, Hello))
           /\ ENABLED MainClear(<<"/", "c", "l", "e", "a", "r">>)
           /\ ENABLED MainHistory(<<"/", "h", "i", "s", "t", "o", "r", "y">>)
    /\ pc = "exited" =>
           /\ op \in {"quit", "interrupt"}
           /\ exit_status = 0

\* a second failed turn, taken by the loop after a first one
C11_Witness ==
    /\ op = "get_response"
    /\ outcome = "AuthenticationError"
    /\ pc = "ready"
    /\ Len(calls) = 2
    /\ ~calls[1].ok
    /\ Len(conversation_history) = 2

\* the commands main() knows
Commands ==
    { <<"/", "h", "e", "l", "p">>, <<"/", "s", "a", "v", "e">>,
      <<"/", "c", "l", "e", "a", "r">>, <<"/", "h", "i", "s", "t", "o", "r", "y">>,
      <<"/", "q", "u", "i", "t">>, <<"/", "e", "x", "i", "t">>,
      <<"/", "s", "e", "c", "u", "r", "i", "t", "y">> }

\* the step reports its input u as an unknown command and does nothing else
ReportsUnknown(u) ==
    /\ op' = "unknown"
    /\ output'[1] = <<"Unknown command: ">> \o u
    /\ sent' = <<>>
    /\ UNCHANGED << conversation_history, system_message, model >>

\* the step submits its input u as a user turn
SubmitsTurn(u) ==
    /\ op' = "get_response"
    /\ sent' # <<>>
    /\ sent'[Len(sent')] = [role |-> "user", content |-> u]

\* C12, as stated: an input that starts with "/" and is not one of the
\* listed commands is reported as unrecognized, changes neither history
\* nor system_message nor model and reaches no collaborator; a non-empty
\* input that does not start with "/" is submitted as a user turn.  The
\* input is the line as the dispatcher sees it, trimmed.
C12_Original ==
    [][ arg' # None =>
            LET u == strip(arg')
            IN  /\ (startswith(u, <<"/">>) /\ u \notin Commands) =>
                       ReportsUnknown(u)
                /\ (u # <<>> /\ ~startswith(u, <<"/">>)) => SubmitsTurn(u) ]_vars

\* C12, amended: commands are compared in lower case, so an input that
\* starts with "/" is reported as unrecognized exactly when its lower-case
\* form is not one of the listed commands.
C12_UnknownCommandsAreInert ==
    [][ arg' # None =>
            LET u == strip(arg')
            IN  /\ (startswith(u, <<"/">>) /\ lower(u) \notin Commands) =>
                       ReportsUnknown(u)
                /\ (startswith(u, <<"/">>) /\ lower(u) \in Commands) =>
                       (op' \notin {"unknown", "get_response"} /\ sent' = <<>>)
                /\ (u # <<>> /\ ~startswith(u, <<"/">>)) => SubmitsTurn(u) ]_vars

\* "/save x" reported as unknown while the history holds a turn
C12_Witness ==
    /\ op = "unknown"
    /\ arg = <<"/", "s", "a", "v", "e", " ", "x">>
    /\ Len(conversation_history) = 2
    /\ sent = <<>>

\* C13: save_conversation, whether the write succeeds or fails, and
\* show_history, also when it cuts long content for display, leave the
\* history (role, content and timestamp of every message), system_message
\* and model as they were; the payload of a later turn holds every message
\* with its full content.
C13_SaveAndHistoryReadOnly ==
    [][ /\ op' \in {"save_conversation", "show_history"} =>
               UNCHANGED << conversation_history, system_message, model >>
        /\ (op = "show_history" /\ op' = "get_response") =>
               LET h == conversation_history
                   k == Min(ContextWindow - 1, Len(h))
               IN  /\ Len(sent') = k + 2
                   /\ \A i \in 1..k :
                          sent'[i + 1] = [ role |-> h[Len(h) - k + i].role,
                                           content |-> h[Len(h) - k + i].content ] ]_vars

\* a display that cut a reply of more than 100 characters to 100 and "..."
C13_Witness ==
    /\ op = "show_history"
    /\ Len(conversation_history) = 2
    /\ conversation_history[2].content = LongReply
    /\ Len(output) = 5
    /\ output[4] = <<"2", ".", " ", "A", "s", "s", "i", "s", "t", "a", "n", "t", ":", " ">>
                       \o Repeat("x", TruncateAt) \o <<".", ".", ".">>

\* the last operation was a get_response whose collaborator call failed
FailedTurn == op = "get_response" /\ outcome \in Errors

\* the history ends with the user message of the failed call, unanswered
OrphanKept ==
    /\ Len(conversation_history) > 0
    /\ conversation_history[Len(conversation_history)].role = "user"
    /\ conversation_history[Len(conversation_history)].content = arg

\* C14, as stated: the get_response call that follows a failed one sends
\* the system message, the window the failed request sent, and one more
\* user message.
C14_Original ==
    [][ (FailedTurn /\ op' = "get_response") =>
            /\ OrphanKept
            /\ sent' = sent \o <<[role |-> "user", content |-> arg']>> ]_vars

\* C14, amended: after a failed get_response the history ends with the
\* user's message, unanswered, and nothing takes it back; the next call
\* appends its own user message after it and sends the system message and
\* the last 10 of the failed request's window followed by that new
\* message, so the unanswered turn is sent again, and the oldest message of
\* a window that was full is sent no more.
C14_RetryResendsOrphan ==
    [][ (FailedTurn /\ op' = "get_response") =>
            LET w == Tail(sent) \o <<[role |-> "user", content |-> arg']>>
                k == Min(ContextWindow, Len(w))
            IN  /\ OrphanKept
                /\ SubSeq(conversation_history', 1, Len(conversation_history))
                       = conversation_history
                /\ sent' = <<system_message>> \o SubSeq(w, Len(w) - k + 1, Len(w))
                /\ sent'[Len(sent') - 1] = [role |-> "user", content |-> arg] ]_vars

\* a retry whose failed request had already sent a full window
C14_Witness ==
    /\ op = "get_response"
    /\ Len(calls) >= 2
    /\ ~calls[Len(calls) - 1].ok
    /\ Len(RequestHistory) = ContextWindow + 2
    /\ RequestHistory[ContextWindow + 1].role = "user"
    /\ Len(sent) = ContextWindow + 1

\* the number of user messages among the first i messages of the history
UserCount(i) ==
    Cardinality({ j \in 1..i : conversation_history[j].role = "user" })

\* C15: in every reachable state every assistant message directly follows
\* a user message, so the history neither starts with an assistant message
\* nor holds two of them in a row; every get_response call since the
\* history was empty has its user message in it, and a user message is
\* directly followed by another one only when its own call failed.
C15_AssistantFollowsUser ==
    /\ \A i \in 1..Len(conversation_history) :
           conversation_history[i].role = "assistant" =>
               (i > 1 /\ conversation_history[i - 1].role = "user")
    /\ UserCount(Len(conversation_history)) = Len(calls)
    /\ \A i \in 1..(Len(conversation_history) - 1) :
           ( /\ conversation_history[i].role = "user"
             /\ conversation_history[i + 1].role = "user" ) =>
               ~calls[UserCount(i)].ok

\* two failed turns in a row, then an answered one, after a clear
C15_Witness ==
    /\ Len(conversation_history) = 4
    /\ conversation_history[1].role = "user"
    /\ conversation_history[2].role = "user"
    /\ conversation_history[3].role = "user"
    /\ conversation_history[4].role = "assistant"
    /\ conversation_history[1].timestamp > 1

=============================================================================
